---- MODULE Spec2Model ----
(***************************************************************************)
(* ghstats-cli (src/main.py): main() fetches a user's contribution         *)
(* calendar, calculate_stats() derives total / longest / current streak,   *)
(* display_heatmap() writes the month labels onto a character canvas,      *)
(* builds the 7 x W grid and colours every cell.                           *)
(*                                                                         *)
(* Python values are modelled as follows: a list is a sequence, a dict a   *)
(* function, None the empty sequence, a str of the label track a sequence  *)
(* of one-character strings, an ISO date string "YYYY-MM-DD" the record of *)
(* its three numeric fields, a datetime.date its proleptic ordinal.        *)
(***************************************************************************)
EXTENDS Integers, Sequences, FiniteSets, TLC

\* ---------------------------------------------------------------- bounds
\* most weeks in a fetched calendar
MaxWeeks == 3
\* most days, over all weeks, of a calendar of the streak family
MaxStreakDays == 4
\* most days, over all weeks, of a calendar of the weekday family
MaxGridDays == 2
\* most days, over all weeks, of a calendar of the month family
MaxLabelDays == 3
\* largest contributionCount of the colour family
MaxCount == 21

\* ------------------------------------------------------- module constants
None == <<>>

\* COLORS (line 20); COLORS[k + 1] is the Python COLORS[k]
COLORS == <<"#151B23", "#057A2E", "#30C563", "#56E879", "#8BFFAD">>

\* len(SYMBOL) for SYMBOL = one glyph (line 22)
SymbolLen == 1

\* cell_width = len(SYMBOL) + 1 (line 129)
cell_width == SymbolLen + 1

\* the rows of grid_data: range(7) (lines 163, 166)
Rows == 7

\* ------------------------------------------------------------ datetime
\* datetime._is_leap
IsLeap(y) == (y % 4 = 0) /\ ((y % 100 # 0) \/ (y % 400 = 0))

\* datetime._days_before_year
DaysBeforeYear(y) ==
    LET p == y - 1 IN p * 365 + (p \div 4) - (p \div 100) + (p \div 400)

DaysInMonth(y, m) ==
    IF m = 2 THEN (IF IsLeap(y) THEN 29 ELSE 28)
    ELSE IF m \in {4, 6, 9, 11} THEN 30 ELSE 31

RECURSIVE DaysBeforeMonth(_, _)
\* datetime._days_before_month
DaysBeforeMonth(y, m) ==
    IF m = 1 THEN 0 ELSE DaysBeforeMonth(y, m - 1) + DaysInMonth(y, m - 1)

\* datetime.fromisoformat(s).date() followed by the ordinal the comparison
\* of two dates is made on (date.toordinal)
ToOrdinal(d) == DaysBeforeYear(d.year) + DaysBeforeMonth(d.year, d.month) + d.day

\* strftime("%b"): the abbreviated month name, as its characters (line 140)
MonthAbbr ==
    << <<"J", "a", "n">>, <<"F", "e", "b">>, <<"M", "a", "r">>, <<"A", "p", "r">>,
       <<"M", "a", "y">>, <<"J", "u", "n">>, <<"J", "u", "l">>, <<"A", "u", "g">>,
       <<"S", "e", "p">>, <<"O", "c", "t">>, <<"N", "o", "v">>, <<"D", "e", "c">> >>

strftime_b(d) == MonthAbbr[d.month]

\* ------------------------------------------------- get_color_for_count
get_color_for_count_le(count) ==
    IF count = 0 THEN COLORS[1]
    ELSE IF count <= 5 THEN COLORS[2]
    ELSE IF count <= 10 THEN COLORS[3]
    ELSE IF count <= 20 THEN COLORS[4]
    ELSE COLORS[5]

get_color_for_count(count) ==
    IF count = 0 THEN COLORS[1]
    ELSE IF count < 5 THEN COLORS[2]
    ELSE IF count < 10 THEN COLORS[3]
    ELSE IF count < 20 THEN COLORS[4]
    ELSE COLORS[5]

\* ----------------------------------------------------- calculate_stats
RECURSIVE AllDays(_)
\* all_days = [day for week in weeks for day in week["contributionDays"]]
AllDays(weeks) ==
    IF weeks = <<>> THEN <<>> ELSE Head(weeks) \o AllDays(Tail(weeks))

RECURSIVE SumCounts(_)
\* sum(day["contributionCount"] for day in all_days)
SumCounts(days) ==
    IF days = <<>> THEN 0
    ELSE Head(days).contributionCount + SumCounts(Tail(days))

MaxOf(a, b) == IF a >= b THEN a ELSE b

IsActiveTodayStrict(all_days, now) ==
    /\ all_days # <<>>
    /\ ToOrdinal(all_days[Len(all_days)].date) > ToOrdinal(now) - 1
    /\ all_days[Len(all_days)].contributionCount > 0

\* is_active_today (lines 91-99)
IsActiveToday(all_days, now) ==
    /\ all_days # <<>>
    /\ ToOrdinal(all_days[Len(all_days)].date) >= ToOrdinal(now) - 1
    /\ all_days[Len(all_days)].contributionCount > 0

RECURSIVE StreakLoopNoMax(_, _)
StreakLoopNoMax(days, acc) ==
    IF days = <<>> THEN acc
    ELSE IF Head(days).contributionCount > 0
         THEN StreakLoopNoMax(Tail(days), [longest_streak |-> acc.longest_streak,
                                           current_streak |-> acc.current_streak + 1])
         ELSE StreakLoopNoMax(Tail(days), [longest_streak |-> acc.current_streak,
                                           current_streak |-> 0])

RECURSIVE StreakLoop(_, _)
\* the for loop of lines 101-106, from the accumulators acc
StreakLoop(days, acc) ==
    IF days = <<>> THEN acc
    ELSE IF Head(days).contributionCount > 0
         THEN StreakLoop(Tail(days), [longest_streak |-> acc.longest_streak,
                                      current_streak |-> acc.current_streak + 1])
         ELSE StreakLoop(Tail(days),
                         [longest_streak |-> MaxOf(acc.longest_streak, acc.current_streak),
                          current_streak |-> 0])

StreaksNoFinalMax(all_days) ==
    StreakLoop(all_days, [longest_streak |-> 0, current_streak |-> 0])

\* lines 89-90 and 101-107: the loop and the max that follows it
Streaks(all_days) ==
    LET r == StreakLoop(all_days, [longest_streak |-> 0, current_streak |-> 0])
    IN  [longest_streak |-> MaxOf(r.longest_streak, r.current_streak),
         current_streak |-> r.current_streak]

calculate_stats(weeks, now) ==
    LET all_days == AllDays(weeks)
        s == Streaks(all_days)
    IN  [total |-> SumCounts(all_days),
         longest_streak |-> s.longest_streak,
         current_streak |-> IF IsActiveToday(all_days, now) THEN s.current_streak ELSE 0]

\* ----------------------------------------------------- display_heatmap
RECURSIVE WriteChars(_, _, _, _)
\* for j in range(len(month_str)): if start_pos + j < len(label_canvas):
\*     label_canvas[start_pos + j] = month_str[j]            (lines 146-148)
WriteChars(canvas, start_pos, month_str, j) ==
    IF j >= Len(month_str) THEN canvas
    ELSE WriteChars(IF start_pos + j < Len(canvas)
                    THEN [canvas EXCEPT ![start_pos + j + 1] = month_str[j + 1]]
                    ELSE canvas,
                    start_pos, month_str, j + 1)

RECURSIVE WriteBlankChars(_, _, _, _)
WriteBlankChars(canvas, start_pos, month_str, j) ==
    IF j >= Len(month_str) THEN canvas
    ELSE WriteBlankChars(IF start_pos + j < Len(canvas) /\ canvas[start_pos + j + 1] = " "
                         THEN [canvas EXCEPT ![start_pos + j + 1] = month_str[j + 1]]
                         ELSE canvas,
                         start_pos, month_str, j + 1)

WriteLabelKeepEarlier(canvas, start_pos, month_str) ==
    WriteBlankChars(canvas, start_pos, month_str, 0)

\* the inner loop of lines 146-148
WriteLabel(canvas, start_pos, month_str) == WriteChars(canvas, start_pos, month_str, 0)

MonthChangedFromPreviousWeek(weeks, idx, tracked) ==
    IF idx = 0 THEN TRUE
    ELSE IF weeks[idx] = <<>> THEN TRUE
    ELSE strftime_b(weeks[idx + 1][1].date) # strftime_b(weeks[idx][1].date)

\* month_of_first_day != last_month (line 142), for week index idx (0-based)
MonthChanged(weeks, idx, tracked) == strftime_b(weeks[idx + 1][1].date) # tracked

RECURSIVE DictOf(_, _)
\* {day['weekday']: day['contributionCount'] for day in days}: a later day
\* with the same key replaces the earlier one
DictOf(days, d) ==
    IF days = <<>> THEN d
    ELSE DictOf(Tail(days),
                [k \in (DOMAIN d) \cup {Head(days).weekday} |->
                    IF k = Head(days).weekday THEN Head(days).contributionCount ELSE d[k]])

days_in_week_by_position(week) ==
    [k \in {p - 1 : p \in DOMAIN week} |-> week[k + 1].contributionCount]

\* days_in_week (line 165)
days_in_week(week) == DictOf(week, <<>>)

\* dict.get(key, default)
DictGet(d, key, default) == IF key \in DOMAIN d THEN d[key] ELSE default

\* grid_data after lines 163-167: row r + 1 is the Python grid_data[r]
BuildGridData(weeks) ==
    [r \in 1..Rows |-> [c \in 1..Len(weeks) |-> DictGet(days_in_week(weeks[c]), r - 1, 0)]]

\* the styles of the cells of heatmap_table (lines 169-174)
CellColors(grid) ==
    [r \in 1..Len(grid) |-> [c \in 1..Len(grid[r]) |-> get_color_for_count(grid[r][c])]]

\* ------------------------------------------------- the fetched response
\* The reply to the POST of line 60 is the environment's choice.  A day of
\* the reply is the record the query of lines 41-57 asks for.
Day(date, count, weekday) ==
    [date |-> date, contributionCount |-> count, weekday |-> weekday]

\* weekday as the API numbers it: 0 = Sunday (ordinal 1 is a Monday)
WeekdayOf(date) == ToOrdinal(date) % 7

\* sequences over S of length 0..n
SeqsUpTo(S, n) == UNION {[1..k -> S] : k \in 0..n}

RECURSIVE CalendarsOfWeeks(_, _, _)
\* calendars of exactly w weeks holding at most n days of S in all
CalendarsOfWeeks(S, n, w) ==
    IF w = 0 THEN {<<>>}
    ELSE UNION {{<<wk>> \o rest : wk \in [1..k -> S],
                                  rest \in CalendarsOfWeeks(S, n - k, w - 1)} :
                k \in 0..n}

\* calendars of 0..MaxWeeks weeks holding at most n days of S in all
Calendars(S, n) == UNION {CalendarsOfWeeks(S, n, w) : w \in 0..MaxWeeks}

\* the date before d
PrevDate(d) ==
    IF d.day > 1 THEN [d EXCEPT !.day = d.day - 1]
    ELSE IF d.month > 1
         THEN [d EXCEPT !.month = d.month - 1, !.day = DaysInMonth(d.year, d.month - 1)]
         ELSE [year |-> d.year - 1, month |-> 12, day |-> 31]

RECURSIVE MinusDays(_, _)
MinusDays(d, k) == IF k = 0 THEN d ELSE MinusDays(PrevDate(d), k - 1)

RECURSIVE DaysBefore(_, _)
\* the number of days in the first w weeks of cal
DaysBefore(cal, w) == IF w = 0 THEN 0 ELSE DaysBefore(cal, w - 1) + Len(cal[w])

\* Streak family: consecutive dates ending at `last`, counts 0 or 1, split
\* into weeks at any place.
StreakCounts == {0, 1}

Dated(counts, last) ==
    LET n == DaysBefore(counts, Len(counts))
    IN  [w \in 1..Len(counts) |->
            [p \in 1..Len(counts[w]) |->
                LET date == MinusDays(last, n - (DaysBefore(counts, w - 1) + p))
                IN  Day(date, counts[w][p], WeekdayOf(date))]]

\* a reference date after a leap day with the dates two days before it .. one
\* day after it, and a new year's day with the day before it
StreakClocks ==
    {[now |-> [year |-> 2024, month |-> 3, day |-> 1],
      last |-> [year |-> 2024, month |-> 2, day |-> 28]],
     [now |-> [year |-> 2024, month |-> 3, day |-> 1],
      last |-> [year |-> 2024, month |-> 2, day |-> 29]],
     [now |-> [year |-> 2024, month |-> 3, day |-> 1],
      last |-> [year |-> 2024, month |-> 3, day |-> 1]],
     [now |-> [year |-> 2024, month |-> 3, day |-> 1],
      last |-> [year |-> 2024, month |-> 3, day |-> 2]],
     [now |-> [year |-> 2025, month |-> 1, day |-> 1],
      last |-> [year |-> 2024, month |-> 12, day |-> 31]]}

\* the reference date of the other families
FixedToday == [year |-> 2024, month |-> 6, day |-> 8]

\* Weekday family: Monday or Saturday with count 1 or 2, a day whose weekday
\* is out of range and a day whose count is negative, at any position: a
\* week may miss weekdays, repeat one, or list its days out of weekday order.
GridDay(wd, c) == Day([year |-> 2024, month |-> 6, day |-> 2 + wd], c, wd)

GridDays ==
    {GridDay(wd, c) : wd \in {1, 6}, c \in {1, 2}} \cup {GridDay(7, 1), GridDay(6, -1)}

\* Month family: weeks whose days fall in any month, so the month may change
\* between adjacent weeks.
LabelDates ==
    {[year |-> 2024, month |-> 1, day |-> 28], [year |-> 2024, month |-> 2, day |-> 4],
     [year |-> 2024, month |-> 3, day |-> 3]}

LabelDays == {Day(d, 1, WeekdayOf(d)) : d \in LabelDates}

\* Colour family: one week of two days with any two counts 0..MaxCount
ColorCalendars ==
    {<< <<Day([year |-> 2024, month |-> 6, day |-> 2], c1, 0),
          Day([year |-> 2024, month |-> 6, day |-> 3], c2, 1)>> >> :
        c1 \in 0..MaxCount, c2 \in 0..MaxCount}

Reply(kind, weeks) == [kind |-> kind, weeks |-> weeks]

FailedReplies ==
    {Reply("transport_error", <<>>), Reply("api_error", <<>>), Reply("bad_body", <<>>)}

\* ------------------------------------------------------------- the state
VARIABLES
    pc,            \* where main() is
    TOKEN,         \* os.getenv("GITHUB_TOKEN") is set (line 17)
    today,         \* datetime.now(timezone.utc).date() (line 96)
    response,      \* what the POST of line 60 will be answered with
    weeks_data,    \* main's weeks_data (line 213)
    stats,         \* main's stats (line 214)
    i,             \* the week index of the loop of line 135
    last_month,    \* line 133
    label_canvas,  \* line 132
    labels,        \* the labels written so far: week index, start_pos, month_str
    grid_data,     \* line 163
    cell_styles,   \* the style of each cell of heatmap_table (lines 169-174)
    output,        \* what the process has printed
    exit_code      \* the process's exit status, -1 while it runs

vars == <<pc, TOKEN, today, response, weeks_data, stats, i, last_month, label_canvas,
          labels, grid_data, cell_styles, output, exit_code>>

NoStats == [total |-> 0, longest_streak |-> 0, current_streak |-> 0]

\* main() is started in the environment (token, now, reply)
Start(token, now, reply) ==
    /\ TOKEN = token
    /\ today = now
    /\ response = reply
    /\ pc = "fetch"
    /\ weeks_data = None
    /\ stats = NoStats
    /\ i = 0
    /\ last_month = None
    /\ label_canvas = <<>>
    /\ labels = <<>>
    /\ grid_data = <<>>
    /\ cell_styles = <<>>
    /\ output = "nothing"
    /\ exit_code = -1

Init ==
    \/ Start(FALSE, FixedToday, Reply("none", <<>>))
    \/ \E r \in FailedReplies : Start(TRUE, FixedToday, r)
    \/ \E k \in StreakClocks, c \in Calendars(StreakCounts, MaxStreakDays) :
          Start(TRUE, k.now, Reply("ok", Dated(c, k.last)))
    \/ \E c \in Calendars(GridDays, MaxGridDays) : Start(TRUE, FixedToday, Reply("ok", c))
    \/ \E c \in Calendars(LabelDays, MaxLabelDays) : Start(TRUE, FixedToday, Reply("ok", c))
    \/ \E c \in ColorCalendars : Start(TRUE, FixedToday, Reply("ok", c))

Exit(message) ==
    /\ pc' = "exited"
    /\ output' = message
    /\ exit_code' = 1
    /\ UNCHANGED <<TOKEN, today, response, weeks_data, stats, i, last_month,
                   label_canvas, labels, grid_data, cell_styles>>

\* fetch_contributions, lines 36-39
FetchNoToken ==
    /\ pc = "fetch"
    /\ ~TOKEN
    /\ Exit("GITHUB_TOKEN not found")

\* lines 59-64
FetchHttpError ==
    /\ pc = "fetch"
    /\ TOKEN
    /\ response.kind = "transport_error"
    /\ Exit("HTTP Error")

\* lines 66-69
FetchApiError ==
    /\ pc = "fetch"
    /\ TOKEN
    /\ response.kind = "api_error"
    /\ Exit("GitHub API Error")

\* lines 66 and 71 on a body that is no JSON or lacks the calendar: the
\* exception is caught nowhere, the interpreter prints it and exits with 1
FetchUncaught ==
    /\ pc = "fetch"
    /\ TOKEN
    /\ response.kind = "bad_body"
    /\ Exit("Traceback")

\* line 71 and the assignment of line 213
FetchReturn ==
    /\ pc = "fetch"
    /\ TOKEN
    /\ response.kind = "ok"
    /\ weeks_data' = response.weeks
    /\ pc' = "stats"
    /\ UNCHANGED <<TOKEN, today, response, stats, i, last_month, label_canvas, labels,
                   grid_data, cell_styles, output, exit_code>>

\* line 214
CalculateStats ==
    /\ pc = "stats"
    /\ stats' = calculate_stats(weeks_data, today)
    /\ pc' = "display"
    /\ UNCHANGED <<TOKEN, today, response, weeks_data, i, last_month, label_canvas,
                   labels, grid_data, cell_styles, output, exit_code>>

\* display_heatmap, lines 119-133
DisplayStart ==
    /\ pc = "display"
    /\ label_canvas' = [p \in 1..(Len(weeks_data) * cell_width) |-> " "]
    /\ last_month' = None
    /\ i' = 0
    /\ pc' = "labels"
    /\ UNCHANGED <<TOKEN, today, response, weeks_data, stats, labels, grid_data,
                   cell_styles, output, exit_code>>

\* lines 135-137: a week without days is passed over
LabelSkipEmpty ==
    /\ pc = "labels"
    /\ i < Len(weeks_data)
    /\ weeks_data[i + 1] = <<>>
    /\ i' = i + 1
    /\ UNCHANGED <<pc, TOKEN, today, response, weeks_data, stats, last_month,
                   label_canvas, labels, grid_data, cell_styles, output, exit_code>>

\* lines 139-150, the month differs from last_month
LabelEmit ==
    /\ pc = "labels"
    /\ i < Len(weeks_data)
    /\ weeks_data[i + 1] # <<>>
    /\ MonthChanged(weeks_data, i, last_month)
    /\ LET month_of_first_day == strftime_b(weeks_data[i + 1][1].date)
           start_pos == i * cell_width
       IN  /\ label_canvas' = WriteLabel(label_canvas, start_pos, month_of_first_day)
           /\ labels' = Append(labels, [week |-> i, start_pos |-> start_pos,
                                        month_str |-> month_of_first_day])
           /\ last_month' = month_of_first_day
    /\ i' = i + 1
    /\ UNCHANGED <<pc, TOKEN, today, response, weeks_data, stats, grid_data,
                   cell_styles, output, exit_code>>

\* lines 139-142, the month is last_month
LabelSame ==
    /\ pc = "labels"
    /\ i < Len(weeks_data)
    /\ weeks_data[i + 1] # <<>>
    /\ ~MonthChanged(weeks_data, i, last_month)
    /\ i' = i + 1
    /\ UNCHANGED <<pc, TOKEN, today, response, weeks_data, stats, last_month,
                   label_canvas, labels, grid_data, cell_styles, output, exit_code>>

\* the loop of line 135 is over; lines 152-167
BuildGrid ==
    /\ pc = "labels"
    /\ i >= Len(weeks_data)
    /\ grid_data' = BuildGridData(weeks_data)
    /\ pc' = "render"
    /\ UNCHANGED <<TOKEN, today, response, weeks_data, stats, i, last_month,
                   label_canvas, labels, cell_styles, output, exit_code>>

\* lines 169-204, and main returns
Render ==
    /\ pc = "render"
    /\ cell_styles' = CellColors(grid_data)
    /\ output' = "panel"
    /\ exit_code' = 0
    /\ pc' = "done"
    /\ UNCHANGED <<TOKEN, today, response, weeks_data, stats, i, last_month,
                   label_canvas, labels, grid_data>>

Next ==
    \/ FetchNoToken
    \/ FetchHttpError
    \/ FetchApiError
    \/ FetchUncaught
    \/ FetchReturn
    \/ CalculateStats
    \/ DisplayStart
    \/ LabelSkipEmpty
    \/ LabelEmit
    \/ LabelSame
    \/ BuildGrid
    \/ Render

Spec == Init /\ [][Next]_vars

\* =================================================================
\* What the claims speak of, stated without the code's loops
\* =================================================================
\* calculate_stats has just returned (line 214 is done)
StatsReturned == pc = "display"

\* the loop of line 135 is over and grid_data has just been built
GridBuilt == pc = "render"

\* the k-th day of the calendar, weeks in order and days in order in a week
Chronological(weeks) ==
    [k \in 1..DaysBefore(weeks, Len(weeks)) |->
        LET w == CHOOSE x \in 1..Len(weeks) :
                    DaysBefore(weeks, x - 1) < k /\ k <= DaysBefore(weeks, x)
        IN  weeks[w][k - DaysBefore(weeks, w - 1)]]

Positive(days, a, b) == \A j \in a..b : days[j].contributionCount > 0

\* the length of the run of positive days that ends at the last day
TrailingRun(days) ==
    LET n == Len(days)
    IN  CHOOSE k \in 0..n :
            /\ Positive(days, n - k + 1, n)
            /\ k = n \/ days[n - k].contributionCount <= 0

\* the length of the longest run of positive days
LongestRun(days) ==
    LET n == Len(days)
        runs == {0} \cup {ab[2] - ab[1] + 1 :
                            ab \in {x \in (1..n) \X (1..n) :
                                      x[1] <= x[2] /\ Positive(days, x[1], x[2])}}
    IN  CHOOSE m \in runs : \A r \in runs : r <= m

\* date a is later than date b, field by field
Later(a, b) ==
    \/ a.year > b.year
    \/ a.year = b.year /\ a.month > b.month
    \/ a.year = b.year /\ a.month = b.month /\ a.day > b.day

LastDay == LET days == Chronological(weeks_data) IN days[Len(days)]

\* section 7 of the specification: what makes a calendar malformed
WellFormed(weeks) ==
    \A w \in 1..Len(weeks) :
        /\ Len(weeks[w]) <= 7
        /\ \A p \in 1..Len(weeks[w]) :
              /\ weeks[w][p].weekday \in 0..6
              /\ weeks[w][p].contributionCount >= 0
              /\ \A q \in 1..Len(weeks[w]) :
                    q # p => weeks[w][q].weekday # weeks[w][p].weekday

\* ------------------------------------------------------------------ C1
\* C1, as the code has it: once calculate_stats has returned for a non-empty
\* calendar, currentStreak is the length of the run of positive days ending
\* at the last day when that day's count is > 0 and its date is today, the
\* day before today, or any later date; it is 0 in every other case.
C1_CurrentStreakOnOrAfterYesterday ==
    (StatsReturned /\ Chronological(weeks_data) # <<>>) =>
        stats.current_streak =
            IF /\ LastDay.contributionCount > 0
               /\ \/ LastDay.date = today
                  \/ LastDay.date = PrevDate(today)
                  \/ Later(LastDay.date, today)
            THEN TrailingRun(Chronological(weeks_data))
            ELSE 0

\* C1 as claimed: a last day dated later than today gives currentStreak = 0
C1_CurrentStreakTodayOrYesterdayOnly ==
    (StatsReturned /\ Chronological(weeks_data) # <<>>) =>
        stats.current_streak =
            IF /\ LastDay.contributionCount > 0
               /\ LastDay.date = today \/ LastDay.date = PrevDate(today)
            THEN TrailingRun(Chronological(weeks_data))
            ELSE 0

\* a two-day streak that ended yesterday is reported as current
C1_Witness ==
    /\ StatsReturned
    /\ Len(Chronological(weeks_data)) >= 3
    /\ LastDay.date = PrevDate(today)
    /\ stats.current_streak = 2

\* ------------------------------------------------------------------ C2
\* C2: once calculate_stats has returned, longestStreak is the length of the
\* longest run of consecutive days with count > 0 of the chronological
\* flattening, a run that reaches the last day included, and 0 when there is
\* no day or no positive day.
C2_LongestStreak ==
    StatsReturned => stats.longest_streak = LongestRun(Chronological(weeks_data))

\* the longest run is the one that reaches the last day, over two weeks
C2_Witness ==
    /\ StatsReturned
    /\ Len(weeks_data) >= 2
    /\ Len(Chronological(weeks_data)) >= 4
    /\ TrailingRun(Chronological(weeks_data)) = 2
    /\ stats.longest_streak = 2

\* ------------------------------------------------------------------ C3
\* C3: the stats calculate_stats returns have longestStreak >= currentStreak.
C3_LongestAtLeastCurrent ==
    StatsReturned => stats.longest_streak >= stats.current_streak

\* a live streak shorter than an earlier one
C3_Witness ==
    /\ StatsReturned
    /\ stats.current_streak = 1
    /\ stats.longest_streak = 2

\* ------------------------------------------------------------------ C4
RECURSIVE SumSeq(_)
SumSeq(q) == IF q = <<>> THEN 0 ELSE Head(q) + SumSeq(Tail(q))

RECURSIVE GridSum(_)
GridSum(grid) == IF grid = <<>> THEN 0 ELSE SumSeq(Head(grid)) + GridSum(Tail(grid))

\* C4: whenever calculate_stats and display_heatmap have both produced their
\* result from one calendar, the total equals the sum of the cells of the grid.
C4_TotalIsGridSum == GridBuilt => stats.total = GridSum(grid_data)

\* ------------------------------------------------------------------ C5
\* the level the claim's table gives a count
Level(count) ==
    CASE count = 0 -> 0
      [] count \in 1..4 -> 1
      [] count \in 5..9 -> 2
      [] count \in 10..19 -> 3
      [] count >= 20 -> 4

LevelOfColor(color) == CHOOSE k \in 0..4 : COLORS[k + 1] = color

Cells == {rc \in (1..Len(grid_data)) \X (1..Len(weeks_data)) : grid_data[rc[1]][rc[2]] >= 0}

\* C5: every rendered cell with a count >= 0 has the colour of the level of
\* its count (0; 1..4; 5..9; 10..19; >= 20), and of two cells the one with
\* the smaller count never has the higher level.
C5_ColorLevels ==
    pc = "done" =>
        /\ \A rc \in Cells :
              cell_styles[rc[1]][rc[2]] = COLORS[Level(grid_data[rc[1]][rc[2]]) + 1]
        /\ \A a \in Cells, b \in Cells :
              grid_data[a[1]][a[2]] < grid_data[b[1]][b[2]] =>
                  LevelOfColor(cell_styles[a[1]][a[2]]) <= LevelOfColor(cell_styles[b[1]][b[2]])

\* counts 19 and 20 side by side get levels 3 and 4
C5_Witness ==
    /\ pc = "done"
    /\ \E a \in Cells, b \in Cells :
          /\ grid_data[a[1]][a[2]] = 19 /\ cell_styles[a[1]][a[2]] = COLORS[4]
          /\ grid_data[b[1]][b[2]] = 20 /\ cell_styles[b[1]][b[2]] = COLORS[5]

\* ------------------------------------------------------------------ C6
\* C6: for a well-formed calendar of W weeks the grid has 7 rows of W cells,
\* and the cell of weekday w and week i is the count of the day of week i
\* whose weekday field is w, wherever it stands in the week, or 0 when the
\* week has no such day.
C6_GridByWeekdayField ==
    (GridBuilt /\ WellFormed(weeks_data)) =>
        /\ Len(grid_data) = 7
        /\ \A w \in 0..6 :
              /\ Len(grid_data[w + 1]) = Len(weeks_data)
              /\ \A x \in 1..Len(weeks_data) :
                    LET at == {p \in 1..Len(weeks_data[x]) : weeks_data[x][p].weekday = w}
                    IN  grid_data[w + 1][x] =
                            IF at = {} THEN 0
                            ELSE weeks_data[x][CHOOSE p \in at : TRUE].contributionCount

\* a week without days next to a week that lists Saturday before Monday
C6_Witness ==
    /\ GridBuilt
    /\ WellFormed(weeks_data)
    /\ \E x \in 1..Len(weeks_data) : weeks_data[x] = <<>>
    /\ \E x \in 1..Len(weeks_data) :
          /\ Len(weeks_data[x]) = 2
          /\ weeks_data[x][1].weekday > weeks_data[x][2].weekday
          /\ grid_data[weeks_data[x][1].weekday + 1][x] = 2
          /\ grid_data[weeks_data[x][2].weekday + 1][x] = 1

\* ------------------------------------------------------------------ C7
\* a label was written for week index k (0-based)
Emitted(k) == \E n \in 1..Len(labels) : labels[n].week = k

FirstDayMonth(k) == strftime_b(weeks_data[k + 1][1].date)

\* the month of the first day of the nearest week before k that has a day
TrackedBefore(k) ==
    LET earlier == {x \in 0..(k - 1) : weeks_data[x + 1] # <<>>}
    IN  IF earlier = {} THEN None
        ELSE FirstDayMonth(CHOOSE x \in earlier : \A y \in earlier : y <= x)

InLabelLoop == pc = "labels"

\* C7, as the code has it: with the weeks 0..i-1 walked, a label stands at
\* week k < i exactly when week k has a day and the month of its first day
\* differs from the tracked month (that of the nearest earlier week with a
\* day, none at the start); the label is at column k * cell_width and is
\* that month; a week without days writes nothing and leaves the tracked
\* month alone, so the first week that has a day is always labelled.
C7_LabelWhereMonthChanges ==
    InLabelLoop =>
        /\ \A k \in 0..(i - 1) :
              Emitted(k) <=> (weeks_data[k + 1] # <<>> /\ FirstDayMonth(k) # TrackedBefore(k))
        /\ \A n \in 1..Len(labels) :
              /\ labels[n].week \in 0..(i - 1)
              /\ labels[n].start_pos = labels[n].week * cell_width
              /\ labels[n].month_str = FirstDayMonth(labels[n].week)
              /\ \A m \in 1..Len(labels) : m < n => labels[m].week < labels[n].week
        /\ last_month = TrackedBefore(i)

\* C7 as claimed: the first week always gets a label, and every walked week
\* with a first day gets one exactly when its month differs from the tracked
\* month
C7_FirstWeekAlwaysLabelled ==
    InLabelLoop =>
        /\ i >= 1 => Emitted(0)
        /\ \A k \in 0..(i - 1) :
              weeks_data[k + 1] # <<>> => (Emitted(k) <=> FirstDayMonth(k) # TrackedBefore(k))

\* January, a week without days, January again: one label, at week 0
C7_Witness ==
    /\ InLabelLoop
    /\ i = 3
    /\ weeks_data[1] # <<>> /\ weeks_data[2] = <<>> /\ weeks_data[3] # <<>>
    /\ FirstDayMonth(0) = FirstDayMonth(2)
    /\ Len(labels) = 1
    /\ labels[1].week = 0

\* ------------------------------------------------------------------ C8
\* the labels whose range [start_pos, start_pos + len) holds position p
Covering(p) ==
    {n \in 1..Len(labels) :
        labels[n].start_pos <= p /\ p < labels[n].start_pos + Len(labels[n].month_str)}

\* C8: after the last label is written the canvas is W * cell_width long,
\* and position p holds the character of the latest label that covers p, or
\* a blank when none does; what a label has beyond the canvas is dropped.
C8_CanvasLatestLabelWins ==
    GridBuilt =>
        /\ Len(label_canvas) = Len(weeks_data) * cell_width
        /\ \A p \in 0..(Len(label_canvas) - 1) :
              label_canvas[p + 1] =
                  IF Covering(p) = {} THEN " "
                  ELSE LET n == CHOOSE x \in Covering(p) :
                                    \A y \in Covering(p) : labels[y].week <= labels[x].week
                       IN  labels[n].month_str[p - labels[n].start_pos + 1]

\* two labels on adjacent weeks overlap, and the last one is cut short
C8_Witness ==
    /\ GridBuilt
    /\ Len(labels) >= 2
    /\ labels[2].start_pos < labels[1].start_pos + Len(labels[1].month_str)
    /\ label_canvas[labels[2].start_pos + 1] = labels[2].month_str[1]
    /\ labels[Len(labels)].start_pos + Len(labels[Len(labels)].month_str) > Len(label_canvas)

\* ------------------------------------------------------------------ C9
\* a failure at the boundary, as section 6 of the specification lists them
BoundaryFailure ==
    \/ ~TOKEN
    \/ response.kind \in {"transport_error", "api_error", "bad_body"}
    \/ response.kind = "ok" /\ (response.weeks = <<>> \/ ~WellFormed(response.weeks))

\* C9: in a run with a boundary failure neither calculate_stats nor
\* display_heatmap is ever started, and the process ends with a diagnostic
\* and a non-zero status.
C9_FailureStopsBeforeCore ==
    BoundaryFailure =>
        /\ pc \in {"fetch", "exited"}
        /\ pc = "exited" => (exit_code # 0 /\ output # "nothing")

\* ----------------------------------------------------------------- C10
\* C10: from a malformed calendar no stats, no label track and no grid are
\* ever produced.
C10_MalformedNeverComputed ==
    (pc # "fetch" /\ response.kind = "ok" /\ ~WellFormed(response.weeks)) =>
        /\ pc \notin {"display", "labels", "render", "done"}
        /\ label_canvas = <<>>
        /\ grid_data = <<>>

====
